---- MODULE Spec2Model ----
(***************************************************************************)
(* AdFlowEcomm: the video generation job registry of the backend           *)
(* (backend/app/services/video_service.py), the in-memory session store    *)
(* (backend/app/services/session_manager.py) and the /api/videos handlers  *)
(* that drive them (backend/app/api/videos.py).                            *)
(*                                                                         *)
(* The backend runs on one asyncio event loop: the code between two        *)
(* suspending awaits of a coroutine is one atomic step, and every action   *)
(* below is one such step.                                                 *)
(***************************************************************************)
EXTENDS Integers, Sequences, FiniteSets, TLC

\* ------------------------------------------------------------------ bounds
\* longest scene list handed to generate_videos_parallel
MaxScenes == 2
\* job ids (uuid4) handed out by generate_videos_parallel and regenerate_scene
MaxJobs == 2
\* generate_single_video coroutines created in one run
MaxTasks == 2
\* most coroutines suspended on OpenAI or on runware.disconnect() at a time
MaxCalls == 1
\* longest list of prompts or scene results handed to a fan-out
MaxPrompts == 5
\* longest list of scenes handed to generate_video_scenes
MaxChainScenes == 3
\* largest scene_number a scene dictionary carries
MaxSceneNumber == 2
\* longest list of clips handed to concatenate_videos_with_transitions
MaxClips == 3
\* longest duration, in seconds, a scene description asks for
MaxDuration == 60
\* longest list of scene results handed to the per-scene merge
MaxMergeScenes == 3
\* longest time, in seconds, one status request of the polling takes
MaxLatency == 1

\* ------------------------------------------------------- values and inputs
\* Optional[...] of Python: None is the empty tuple, a value v is <<v>>
None == <<>>
Some(v) == <<v>>

\* truthiness of an Optional[str] (`if error:`): None and "" are falsy
TruthyStr(o) == o # None /\ o[1] # ""

\* str.lower() on the scenario names the model uses
Lower(s) ==
    CASE s = "HOOK" -> "hook"
      [] s = "PROBLEM" -> "problem"
      [] OTHER -> s

\* scenario names a scene list given to the service can carry
ListScenarios == {"hook", "problem"}
\* scenario names a regenerate request can carry
RequestScenarios == {"hook", "HOOK", "problem", "cta", "intro"}
\* messages of the exceptions the Runware SDK raises (str(e) may be empty,
\* e.g. asyncio.TimeoutError())
ExceptionMessages == {"", "connection lost"}
\* outcomes of runware.videoInference that do not raise
InferenceResults == {"empty", "nourl", "ok"}

SessionIds == {"s1"}
\* job ids a status request can carry: 0 is never handed out
RequestJobIds == 0..MaxJobs

\* duration_map of parse_scene_descriptions_response
duration_map(s) ==
    CASE s = "hook" -> 7
      [] s = "problem" -> 7
      [] s = "solution" -> 10
      [] s = "cta" -> 6
      [] OTHER -> 7

\* SceneDescription: the fields the orchestration reads
SceneDescription(s) == [scenario |-> s, duration |-> duration_map(s)]

RECURSIVE SeqsUpTo(_, _)
SeqsUpTo(S, n) ==
    IF n = 0 THEN {<<>>}
    ELSE LET prev == SeqsUpTo(S, n - 1)
         IN  prev \cup {Append(q, x) : q \in {p \in prev : Len(p) = n - 1}, x \in S}

\* the scene lists generate_videos_parallel is called with
SceneLists == {[i \in 1..Len(q) |-> SceneDescription(q[i])] : q \in SeqsUpTo(ListScenarios, MaxScenes)}

Range(q) == {q[i] : i \in 1..Len(q)}

\* -------------------------------------------------------------------- state
VARIABLES
    jobs,       \* VideoService.jobs: job_id -> VideoGenerationJob
    tasks,      \* job_id -> the generate_single_video coroutines gathered for it
    njobs,      \* number of job ids handed out so far
    connected,  \* VideoService._connected
    sessions,   \* session_manager.sessions: session_id -> SessionData
    regens,     \* job_id -> a regenerate_scene handler waiting on its generation
    calls,      \* the coroutines suspended on OpenAI or on runware.disconnect()
    fan,        \* one call of a ThreadPoolExecutor fan-out of AssetGenerator
    chain,      \* one call of AssetGenerator.generate_video_scenes (its scene loop)
    asm,        \* one call of concatenate_videos_with_transitions
    dur,        \* the duration adjustment of one scene of generate_video_scenes
    pipe,       \* the per-scene merges and the final combination of generate_complete_video
    poll        \* one call of RunwareClient.wait_for_completion

\* the state of the backend's video service and session store
serviceVars == <<jobs, tasks, njobs, connected, sessions, regens, calls>>

\* the state of the generation scripts (src/generators, scripts/utils)
scriptVars == <<fan, chain, asm, dur, pipe, poll>>

vars == <<serviceVars, scriptVars>>

\* ------------------------------------------------------- VideoGenerationJob
NewJob(session_id) == [session_id |-> session_id, scenes |-> <<>>]

HasScene(job, scenario) == \E i \in 1..Len(job.scenes) : job.scenes[i].scenario = scenario

SceneIndex(job, scenario) == CHOOSE i \in 1..Len(job.scenes) : job.scenes[i].scenario = scenario

SceneOf(job, scenario) == job.scenes[SceneIndex(job, scenario)]

NewScene(scenario) ==
    [scenario |-> scenario, status |-> "generating", progress |-> 0,
     video_url |-> None, error |-> None]

\* self.scenes[scenario] = {...}: a dict keeps the position of a key it already has
add_scene(job, scenario) ==
    IF HasScene(job, scenario)
    THEN [job EXCEPT !.scenes[SceneIndex(job, scenario)] = NewScene(scenario)]
    ELSE [job EXCEPT !.scenes = Append(@, NewScene(scenario))]

\* update_scene applied in part: the status, result and error are written, the
\* progress is left as it was
update_scene_torn(job, scenario, status, progress, video_url, error) ==
    IF HasScene(job, scenario)
    THEN [job EXCEPT !.scenes[SceneIndex(job, scenario)] =
            [@ EXCEPT !.status = status,
                      !.video_url = IF video_url # None THEN video_url ELSE @,
                      !.error = IF TruthyStr(error) THEN error ELSE @]]
    ELSE job

update_scene(job, scenario, status, progress, video_url, error) ==
    IF HasScene(job, scenario)
    THEN [job EXCEPT !.scenes[SceneIndex(job, scenario)] =
            [@ EXCEPT !.status = status,
                      !.progress = progress,
                      !.video_url = IF video_url # None THEN video_url ELSE @,
                      !.error = IF TruthyStr(error) THEN error ELSE @]]
    ELSE job

AllStatus(job, st) == \A i \in 1..Len(job.scenes) : job.scenes[i].status = st
AnyStatus(job, st) == \E i \in 1..Len(job.scenes) : job.scenes[i].status = st

\* get_overall_status with `any` in place of the first `all`
get_overall_status_any(job) ==
    IF job.scenes = <<>> THEN "unknown"
    ELSE IF AnyStatus(job, "completed") THEN "completed"
    ELSE IF AllStatus(job, "failed") THEN "failed"
    ELSE IF AnyStatus(job, "generating") THEN "generating"
    ELSE "partial"

get_overall_status(job) ==
    IF job.scenes = <<>> THEN "unknown"
    ELSE IF AllStatus(job, "completed") THEN "completed"
    ELSE IF AllStatus(job, "failed") THEN "failed"
    ELSE IF AnyStatus(job, "generating") THEN "generating"
    ELSE "partial"

RECURSIVE AddScenes(_, _)
AddScenes(job, descs) ==
    IF descs = <<>> THEN job
    ELSE AddScenes(add_scene(job, Head(descs).scenario), Tail(descs))

\* ---------------------------------------- VideoService.generate_single_video
\* The coroutine suspends at `await self.runware.connect()` (only while the
\* service is not connected), at `await self.runware.videoInference(...)` and
\* at `await self.download_video(...)`; pc names the await it is suspended at.

\* f"/outputs/{job.session_id}_{scenario}_{uuid.uuid4().hex[:8]}.mp4": the
\* uuid part is fresh for every generation; uid = <<job id, index of the coroutine>>
relative_path(session_id, scenario, uid) ==
    [session |-> session_id, scenario |-> scenario, uid |-> uid]

\* an exception handler that writes nothing to the scene
gsv_except_swallowed(job, scenario, msg) == job

\* except Exception as e: job.update_scene(scenario, "failed", 0, error=str(e))
gsv_except(job, scenario, msg) ==
    update_scene(job, scenario, "failed", 0, None, Some(msg))

\* from the start to the first suspension
gsv_start(job, scenario, conn) ==
    LET j10 == update_scene(job, scenario, "generating", 10, None, None)
    IN  IF conn
        THEN [job |-> update_scene(j10, scenario, "generating", 30, None, None), pc |-> "infer"]
        ELSE [job |-> j10, pc |-> "connect"]

\* connect() returned: request built, progress 30, videoInference awaited
gsv_connected(job, scenario) ==
    [job |-> update_scene(job, scenario, "generating", 30, None, None), pc |-> "infer"]

\* videoInference returned `res`
gsv_inferred(job, scenario, res) ==
    LET j70 == update_scene(job, scenario, "generating", 70, None, None)
        j80 == update_scene(j70, scenario, "generating", 80, None, None)
    IN  CASE res = "empty" ->
               [job |-> gsv_except(job, scenario, "No results returned from Runware"),
                pc |-> "done", result |-> None]
          [] res = "nourl" ->
               [job |-> gsv_except(j70, scenario, "No video URL in results"),
                pc |-> "done", result |-> None]
          [] OTHER -> [job |-> j80, pc |-> "download", result |-> None]

\* a download whose success is not written to the scene
gsv_downloaded_unrecorded(job, scenario, ok, uid) ==
    LET path == relative_path(job.session_id, scenario, uid)
    IN  IF ok
        THEN [job |-> job, pc |-> "done", result |-> Some(path)]
        ELSE [job |-> gsv_except(job, scenario, "Failed to download video"),
              pc |-> "done", result |-> None]

\* download_video returned `ok` (it catches its own exceptions and returns False)
gsv_downloaded(job, scenario, ok, uid) ==
    LET path == relative_path(job.session_id, scenario, uid)
    IN  IF ok
        THEN [job |-> update_scene(job, scenario, "completed", 100, Some(path), None),
              pc |-> "done", result |-> Some(path)]
        ELSE [job |-> gsv_except(job, scenario, "Failed to download video"),
              pc |-> "done", result |-> None]

\* an await raised with message msg
gsv_raised(job, scenario, msg) ==
    [job |-> gsv_except(job, scenario, msg), pc |-> "done", result |-> None]

\* ------------------------------------------------------------ session store
NewSession(descs) ==
    [scene_descriptions |-> descs, scene_videos |-> <<>>, expired |-> FALSE]

\* session_manager.get_session: an expired session is removed and None returned
SessionsAfterGet(store, sid) ==
    IF sid \in DOMAIN store /\ store[sid].expired
    THEN [x \in DOMAIN store \ {sid} |-> store[x]]
    ELSE store

get_session(store, sid) ==
    IF sid \in DOMAIN store /\ ~store[sid].expired THEN Some(store[sid]) ELSE None

\* coroutines created so far: the gathered ones and one per regenerate call
TasksCreated ==
    LET RECURSIVE Sum(_)
        Sum(S) == IF S = {} THEN 0
                  ELSE LET j == CHOOSE x \in S : TRUE IN Len(tasks[j]) + Sum(S \ {j})
    IN  Sum(DOMAIN tasks) + (njobs - Cardinality(DOMAIN jobs))

\* ------------------------------------ VideoService.generate_videos_parallel
generate_videos_parallel(descs, session_id) ==
    /\ LET job_id == njobs + 1
           job == AddScenes(NewJob(session_id), descs)
       IN  /\ jobs' = [x \in DOMAIN jobs \cup {job_id} |-> IF x = job_id THEN job ELSE jobs[x]]
           /\ tasks' = [x \in DOMAIN tasks \cup {job_id} |->
                          IF x = job_id
                          THEN [i \in 1..Len(descs) |-> [scene |-> descs[i], pc |-> "created"]]
                          ELSE tasks[x]]
           /\ njobs' = job_id
    /\ UNCHANGED <<connected, sessions, regens>>

\* ------------------- the coroutines gathered by _execute_parallel_generation
SetTask(j, k, job, pc) ==
    /\ jobs' = [jobs EXCEPT ![j] = job]
    /\ tasks' = [tasks EXCEPT ![j][k].pc = pc]

\* _execute_parallel_generation: asyncio.gather wraps the coroutines in tasks
\* one after the other, so their first steps run back to back, in list order,
\* before any other callback of the event loop
RECURSIVE StartAll(_, _, _, _)
StartAll(job, ts, k, conn) ==
    IF k > Len(ts) THEN [job |-> job, tasks |-> ts]
    ELSE LET r == gsv_start(job, ts[k].scene.scenario, conn)
         IN  StartAll(r.job, [ts EXCEPT ![k].pc = r.pc], k + 1, conn)

execute_parallel_generation(j) ==
    /\ Len(tasks[j]) > 0
    /\ \A k \in 1..Len(tasks[j]) : tasks[j][k].pc = "created"
    /\ LET r == StartAll(jobs[j], tasks[j], 1, connected)
       IN  /\ jobs' = [jobs EXCEPT ![j] = r.job]
           /\ tasks' = [tasks EXCEPT ![j] = r.tasks]
    /\ UNCHANGED <<njobs, connected, sessions, regens>>

TaskConnected(j, k) ==
    /\ tasks[j][k].pc = "connect"
    /\ LET r == gsv_connected(jobs[j], tasks[j][k].scene.scenario)
       IN  SetTask(j, k, r.job, r.pc)
    /\ connected' = TRUE
    /\ UNCHANGED <<njobs, sessions, regens>>

TaskRaised(j, k, msg) ==
    /\ tasks[j][k].pc \in {"connect", "infer"}
    /\ LET r == gsv_raised(jobs[j], tasks[j][k].scene.scenario, msg)
       IN  SetTask(j, k, r.job, r.pc)
    /\ UNCHANGED <<njobs, connected, sessions, regens>>

TaskInferred(j, k, res) ==
    /\ tasks[j][k].pc = "infer"
    /\ LET r == gsv_inferred(jobs[j], tasks[j][k].scene.scenario, res)
       IN  SetTask(j, k, r.job, r.pc)
    /\ UNCHANGED <<njobs, connected, sessions, regens>>

TaskDownloaded(j, k, ok) ==
    /\ tasks[j][k].pc = "download"
    /\ LET r == gsv_downloaded(jobs[j], tasks[j][k].scene.scenario, ok, <<j, k>>)
       IN  SetTask(j, k, r.job, r.pc)
    /\ UNCHANGED <<njobs, connected, sessions, regens>>

\* ------------------------------------------------- api/videos.py: handlers
EmptyMap == [x \in {} |-> None]

Without(f, k) == [x \in DOMAIN f \ {k} |-> f[x]]
With(f, k, v) == [x \in DOMAIN f \cup {k} |-> IF x = k THEN v ELSE f[x]]

SceneVideo(scenario, video_url, duration) ==
    [scenario |-> scenario, video_url |-> video_url, duration |-> duration,
     status |-> "completed"]

\* the duration of the first description with exactly this scenario, else the 0
\* that get_scene_videos_from_job put there
DurationFrom(descs, scenario) ==
    IF \E i \in 1..Len(descs) : descs[i].scenario = scenario
    THEN descs[CHOOSE i \in 1..Len(descs) :
                 /\ descs[i].scenario = scenario
                 /\ \A h \in 1..(i - 1) : descs[h].scenario # scenario].duration
    ELSE 0

RECURSIVE SelectCompleted(_)
SelectCompleted(scenes) ==
    IF scenes = <<>> THEN <<>>
    ELSE LET sc == Head(scenes)
         IN  IF sc.status = "completed" /\ sc.video_url # None
             THEN <<SceneVideo(sc.scenario, sc.video_url[1], 0)>> \o SelectCompleted(Tail(scenes))
             ELSE SelectCompleted(Tail(scenes))

\* VideoService.get_scene_videos_from_job
get_scene_videos_from_job(registry, job_id) ==
    IF job_id \in DOMAIN registry THEN SelectCompleted(registry[job_id].scenes) ELSE <<>>

\* the scene_videos get_video_status stores in the session of a completed job
StatusSceneVideos(registry, job_id, descs) ==
    LET svs == get_scene_videos_from_job(registry, job_id)
    IN  [i \in 1..Len(svs) |-> [svs[i] EXCEPT !.duration = DurationFrom(descs, svs[i].scenario)]]

\* a ProductFlowError raised to the caller (core/errors.py): ValidationError is
\* 400 VALIDATION_ERROR, SessionNotFoundError 404 SESSION_NOT_FOUND,
\* VideoGenerationError 500 VIDEO_GENERATION_ERROR with its message behind the
\* prefix its constructor puts before it
ValidationError(message) ==
    [kind |-> "error", error_code |-> "VALIDATION_ERROR", status_code |-> 400,
     message |-> message]

SessionNotFoundError ==
    [kind |-> "error", error_code |-> "SESSION_NOT_FOUND", status_code |-> 404,
     message |-> "Session not found or expired. Please start a new session."]

VideoGenerationError(message) ==
    [kind |-> "error", error_code |-> "VIDEO_GENERATION_ERROR", status_code |-> 500,
     message |-> "Video generation failed: " \o message]

\* what GET /status/{job_id} answers in the current state
VideoStatusResponse(registry, job_id) ==
    IF job_id \notin DOMAIN registry
    THEN ValidationError("Job not found")
    ELSE [kind |-> "ok", job_id |-> job_id,
          overall_status |-> get_overall_status(registry[job_id]),
          scenes |-> registry[job_id].scenes]

\* GET /status/{job_id}: a completed job's videos are stored in its session
get_video_status(job_id) ==
    /\ IF job_id \notin DOMAIN jobs
       THEN sessions' = sessions
       ELSE LET job == jobs[job_id]
                sid == job.session_id
                session == get_session(sessions, sid)
                store == SessionsAfterGet(sessions, sid)
            IN  IF get_overall_status(job) = "completed"
                THEN IF session # None
                     THEN sessions' = [store EXCEPT ![sid].scene_videos =
                             StatusSceneVideos(jobs, job_id, session[1].scene_descriptions)]
                     ELSE sessions' = store
                ELSE sessions' = sessions
    /\ UNCHANGED <<jobs, tasks, njobs, connected, regens>>

\* generate_scenes: the scenarios a session must have descriptions for
required_scenarios == <<"hook", "problem", "solution", "cta">>

\* what POST /generate-scenes answers when it starts no generation: an error,
\* or None when the request is accepted
GenerateScenesRejection(store, session_id) ==
    LET session == get_session(store, session_id)
    IN  IF session = None THEN Some(SessionNotFoundError)
        ELSE IF session[1].scene_descriptions = <<>>
        THEN Some(ValidationError("No scene descriptions found"))
        ELSE IF \E i \in 1..Len(required_scenarios) :
                    \A h \in 1..Len(session[1].scene_descriptions) :
                        session[1].scene_descriptions[h].scenario # required_scenarios[i]
        THEN Some(ValidationError("Missing scene descriptions"))
        ELSE None

\* POST /generate-scenes: every description of the session goes to
\* generate_videos_parallel
generate_scenes(session_id) ==
    IF GenerateScenesRejection(sessions, session_id) # None
    THEN /\ sessions' = SessionsAfterGet(sessions, session_id)
         /\ UNCHANGED <<jobs, tasks, njobs, connected, regens>>
    ELSE generate_videos_parallel(sessions[session_id].scene_descriptions, session_id)

valid_scenarios == {"hook", "problem", "solution", "cta"}

\* the first description whose scenario matches the request, ignoring case
FindDescription(descs, scenario) ==
    IF \E i \in 1..Len(descs) : Lower(descs[i].scenario) = Lower(scenario)
    THEN Some(descs[CHOOSE i \in 1..Len(descs) :
                      /\ Lower(descs[i].scenario) = Lower(scenario)
                      /\ \A h \in 1..(i - 1) : Lower(descs[h].scenario) # Lower(scenario)])
    ELSE None

\* the update as it would be with the `else` branch of the loop left out: the
\* other scenarios' entries are not carried over
UpdatedVideos_dropping(videos, scenario, video_path, duration) ==
    <<SceneVideo(scenario, video_path, duration)>>

\* regenerate_scene, lines 260-290: the session's list with the entries of the
\* requested scenario replaced, or the new video appended when there was none
UpdatedVideos(videos, scenario, video_path, duration) ==
    LET new_video == SceneVideo(scenario, video_path, duration)
        video_found == \E i \in 1..Len(videos) : Lower(videos[i].scenario) = Lower(scenario)
        replaced == [i \in 1..Len(videos) |->
                        IF Lower(videos[i].scenario) = Lower(scenario)
                        THEN new_video ELSE videos[i]]
    IN  IF video_found THEN replaced ELSE Append(replaced, new_video)

\* what POST /regenerate-scene answers before it generates anything: an error,
\* or None when the request is accepted
RegenerateRejection(store, session_id, scenario) ==
    LET session == get_session(store, session_id)
    IN  IF session = None THEN Some(SessionNotFoundError)
        ELSE IF Lower(scenario) \notin valid_scenarios
        THEN Some(ValidationError("Invalid scenario"))
        ELSE IF FindDescription(session[1].scene_descriptions, scenario) = None
        THEN Some(ValidationError("No scene description found for scenario"))
        ELSE None

\* what POST /regenerate-scene answers once its generation returned `result`
RegenerateResponse(r, result) ==
    IF result = None
    THEN VideoGenerationError("Video generation returned no result")
    ELSE [kind |-> "ok", scenario |-> r.scenario, video_url |-> result[1]]

\* the handler after `await video_service.regenerate_scene(...)` returned:
\* r is the handler's frame, g the last step of its generate_single_video.
\* `session` is the object fetched before the await: the stored one as long as
\* the store still holds the session
RegenerateFinish(id, r, g) ==
    /\ regens' = Without(regens, id)
    /\ IF g.result # None /\ r.session_id \in DOMAIN sessions
       THEN sessions' = [sessions EXCEPT ![r.session_id].scene_videos =
                UpdatedVideos(@, r.scenario, g.result[1], r.desc.duration)]
       ELSE sessions' = sessions

\* one step of the handler's generate_single_video, which runs on the temporary job
RegenerateStep(id, g) ==
    IF g.pc = "done"
    THEN RegenerateFinish(id, regens[id], g)
    ELSE /\ regens' = [regens EXCEPT ![id].job = g.job, ![id].pc = g.pc]
         /\ sessions' = sessions

\* POST /regenerate-scene up to its first suspension
regenerate_scene(session_id, scenario) ==
    /\ IF RegenerateRejection(sessions, session_id, scenario) # None
       THEN /\ sessions' = SessionsAfterGet(sessions, session_id)
            /\ UNCHANGED <<njobs, regens>>
       ELSE \* VideoService.regenerate_scene: a temporary job, never stored
            /\ LET job_id == njobs + 1
                   desc == FindDescription(sessions[session_id].scene_descriptions, scenario)[1]
                   job == add_scene(NewJob(session_id), desc.scenario)
                   g == gsv_start(job, desc.scenario, connected)
               IN  /\ njobs' = job_id
                   /\ regens' = With(regens, job_id,
                                     [session_id |-> session_id, scenario |-> scenario,
                                      desc |-> desc, job |-> g.job, pc |-> g.pc])
            /\ sessions' = sessions
    /\ UNCHANGED <<jobs, tasks, connected>>

RegenerateConnected(id) ==
    /\ regens[id].pc = "connect"
    /\ RegenerateStep(id, gsv_connected(regens[id].job, regens[id].desc.scenario))
    /\ connected' = TRUE
    /\ UNCHANGED <<jobs, tasks, njobs>>

RegenerateRaised(id, msg) ==
    /\ regens[id].pc \in {"connect", "infer"}
    /\ RegenerateStep(id, gsv_raised(regens[id].job, regens[id].desc.scenario, msg))
    /\ UNCHANGED <<jobs, tasks, njobs, connected>>

RegenerateInferred(id, res) ==
    /\ regens[id].pc = "infer"
    /\ RegenerateStep(id, gsv_inferred(regens[id].job, regens[id].desc.scenario, res))
    /\ UNCHANGED <<jobs, tasks, njobs, connected>>

RegenerateDownloaded(id, ok) ==
    /\ regens[id].pc = "download"
    /\ RegenerateStep(id, gsv_downloaded(regens[id].job, regens[id].desc.scenario, ok, <<id, 1>>))
    /\ UNCHANGED <<jobs, tasks, njobs, connected>>

\* the clock passes a session's expires_at
Expire(session_id) ==
    /\ session_id \in DOMAIN sessions
    /\ ~sessions[session_id].expired
    /\ sessions' = [sessions EXCEPT ![session_id].expired = TRUE]
    /\ UNCHANGED <<jobs, tasks, njobs, connected, regens>>

\* a coroutine suspended on an external service: the method or handler, and
\* the session and the scenario of its request
Call(kind, session_id, scenario) ==
    [kind |-> kind, session_id |-> session_id, scenario |-> scenario]

\* the list without its k-th entry
RemoveAt(q, k) == SubSeq(q, 1, k - 1) \o SubSeq(q, k + 1, Len(q))

\* VideoService.disconnect up to its suspension: with a connection it awaits
\* runware.disconnect(), without one it returns at once
disconnect ==
    /\ connected
    /\ Len(calls) < MaxCalls
    /\ calls' = Append(calls, Call("disconnect", None, None))
    /\ UNCHANGED <<jobs, tasks, njobs, connected, sessions, regens>>

\* runware.disconnect() has returned (ok) or raised: line 102 resets _connected
\* only after it returned
DisconnectReturned(k, ok) ==
    /\ calls[k].kind = "disconnect"
    /\ connected' = IF ok THEN FALSE ELSE connected
    /\ calls' = RemoveAt(calls, k)
    /\ UNCHANGED <<jobs, tasks, njobs, sessions, regens>>

\* the session ids the jobs and the regenerate handlers hold
ReferencedSessions ==
    {jobs[j].session_id : j \in DOMAIN jobs}
        \cup {regens[id].session_id : id \in DOMAIN regens}
        \cup {calls[k].session_id : k \in {h \in 1..Len(calls) : calls[h].kind # "disconnect"}}

\* session_manager.create_session: a session with a new uuid4, which no part
\* of the program holds yet, and no data
create_session(session_id) ==
    /\ session_id \notin DOMAIN sessions
    /\ session_id \notin ReferencedSessions
    /\ sessions' = With(sessions, session_id, NewSession(<<>>))
    /\ UNCHANGED <<jobs, tasks, njobs, connected, regens>>

\* GET /api/session/{session_id}: get_session removes the session it finds expired
read_session(session_id) ==
    /\ sessions' = SessionsAfterGet(sessions, session_id)
    /\ UNCHANGED <<jobs, tasks, njobs, connected, regens>>

\* session_manager.delete_session: the session leaves the store, expired or not
delete_session(session_id) ==
    /\ sessions' = Without(sessions, session_id)
    /\ UNCHANGED <<jobs, tasks, njobs, connected, regens>>

\* session_manager.cleanup_expired_sessions
cleanup_expired_sessions ==
    /\ sessions' = [sid \in {x \in DOMAIN sessions : ~sessions[x].expired} |-> sessions[sid]]
    /\ UNCHANGED <<jobs, tasks, njobs, connected, regens>>

\* what the handlers do with the SessionData object they hold after an await:
\* the assignment changes the object, which is the one in the store unless the
\* session left the store meanwhile (update_session stores nothing then);
\* whether the session has expired is not looked at again
WithDescriptions(store, session_id, descs) ==
    IF session_id \in DOMAIN store
    THEN [store EXCEPT ![session_id].scene_descriptions = descs]
    ELSE store

\* POST /api/scenes/generate-descriptions up to its suspension: `ready` tells
\* whether the request names an image for each scenario and the session holds
\* the product analysis and the form data, `found` whether every image the
\* request names is one of session.generated_images. analyze_selected_images
\* has no await of its own: an image that is not found raises in the same
\* step. The handler is suspended first on OpenAI, in
\* generate_scene_descriptions.
generate_descriptions(session_id, ready, found) ==
    /\ IF get_session(sessions, session_id) = None
       THEN /\ sessions' = SessionsAfterGet(sessions, session_id)
            /\ calls' = calls
       ELSE IF ~ready \/ ~found
       THEN UNCHANGED <<sessions, calls>>
       ELSE /\ Len(calls) < MaxCalls
            /\ calls' = Append(calls, Call("generate_descriptions", session_id, None))
            /\ sessions' = sessions
    /\ UNCHANGED <<jobs, tasks, njobs, connected, regens>>

\* OpenAI has answered: `answer` is the list of scenes parsed from the answer,
\* or None when the call of OpenAI raised; lines 126-152 store the scenes
DescriptionsGenerated(k, answer) ==
    /\ calls[k].kind = "generate_descriptions"
    /\ sessions' = IF answer # None
                   THEN WithDescriptions(sessions, calls[k].session_id, answer[1])
                   ELSE sessions
    /\ calls' = RemoveAt(calls, k)
    /\ UNCHANGED <<jobs, tasks, njobs, connected, regens>>

\* regenerate_description, lines 314-321: the descriptions of the requested
\* scenario replaced by the new scene
UpdatedScenes(descs, scenario, new_scene) ==
    [i \in 1..Len(descs) |->
        IF Lower(descs[i].scenario) = Lower(scenario) THEN new_scene ELSE descs[i]]

\* POST /api/scenes/regenerate-description up to its suspension on OpenAI
regenerate_description(session_id, scenario) ==
    /\ IF get_session(sessions, session_id) = None
       THEN /\ sessions' = SessionsAfterGet(sessions, session_id)
            /\ calls' = calls
       ELSE IF \/ Lower(scenario) \notin valid_scenarios
               \/ FindDescription(sessions[session_id].scene_descriptions, scenario) = None
       THEN UNCHANGED <<sessions, calls>>
       ELSE /\ Len(calls) < MaxCalls
            /\ calls' = Append(calls, Call("regenerate_description", session_id, Some(scenario)))
            /\ sessions' = sessions
    /\ UNCHANGED <<jobs, tasks, njobs, connected, regens>>

\* OpenAI has answered: `answer` is the list of scenes parsed from the answer
\* (the first one is taken, an empty list raises), or None when the call
\* raised; lines 314-321 rebuild the list from the descriptions the session
\* object holds now
DescriptionRegenerated(k, answer) ==
    /\ calls[k].kind = "regenerate_description"
    /\ sessions' =
          IF answer # None /\ answer[1] # <<>> /\ calls[k].session_id \in DOMAIN sessions
          THEN WithDescriptions(sessions, calls[k].session_id,
                   UpdatedScenes(sessions[calls[k].session_id].scene_descriptions,
                                 calls[k].scenario[1], answer[1][1]))
          ELSE sessions
    /\ calls' = RemoveAt(calls, k)
    /\ UNCHANGED <<jobs, tasks, njobs, connected, regens>>

\* ------------------------- generators/generator.py: ThreadPoolExecutor fan-out
\* AssetGenerator.generate_images and the audio fan-out of generate_video_scenes
\* hand their tasks to a ThreadPoolExecutor; a task is queued, then runs on a
\* worker thread, then holds its outcome.

\* min(len(...), 4): the most worker threads an executor is given
MaxWorkers == 4

Min(a, b) == IF a < b THEN a ELSE b

\* how _generate_single_image ends: it raises (generate_image, the polling or
\* the download raised), returns without a file (no URL in the result), returns
\* a file without a handle (upload_image raised, which it catches), or returns
\* a file and its handle
ImageOutcomes == {"raised", "nourl", "nohandle", "ok"}
\* how _generate_scene_audio_from_video ends: it raises, it returns {} (it
\* catches the errors of the Mirelo client), or it returns the audio file
AudioOutcomes == {"raised", "noaudio", "ok"}

FanIdle ==
    [call |-> "idle", mode |-> "none", workers |-> 0, task |-> <<>>, numbers |-> <<>>,
     results |-> <<>>]

\* the dict _generate_single_image returns for the index-th prompt
ImageResult(index, outcome) ==
    [index |-> index,
     local_path |-> IF outcome = "nourl" THEN None ELSE Some(index),
     image_uuid |-> IF outcome = "ok" THEN Some(index) ELSE None]

\* the entry of `results` for a scene after the audio fan-out
SceneResult(scene_number, has_video, outcome) ==
    [scene_number |-> scene_number, has_video |-> has_video,
     audio_files |-> IF outcome = "ok" THEN Some(scene_number) ELSE None]

Finished(st) == st \notin {"queued", "running"}

NumRunning(f) == Cardinality({k \in 1..Len(f.task) : f.task[k] = "running"})

\* generate_images(prompts, parallel=...) up to the submission of its tasks: the
\* parallel branch gets min(len(prompts), 4) workers, the sequential branch
\* runs the tasks one after the other on the caller's thread
generate_images(n, parallel) ==
    /\ fan.call = "idle"
    /\ fan' = [call |-> "running",
               mode |-> IF parallel /\ n > 1 THEN "parallel" ELSE "sequential",
               workers |-> IF parallel /\ n > 1 THEN Min(n, MaxWorkers) ELSE 1,
               task |-> [k \in 1..n |-> "queued"],
               numbers |-> <<>>,
               results |-> <<>>]

\* the audio fan-out of generate_video_scenes over the results of the loop:
\* one task per scene result that has a video_path;
\* ThreadPoolExecutor(max_workers=0) raises ValueError
audio_fan_out(results) ==
    /\ fan.call = "idle"
    /\ fan' = [call |-> IF Len(results) = 0 THEN "raised" ELSE "running",
               mode |-> "audio",
               workers |-> Min(Len(results), MaxWorkers),
               task |-> [k \in 1..Len(results) |->
                            IF results[k].has_video THEN "queued" ELSE "skipped"],
               numbers |-> [k \in 1..Len(results) |-> results[k].scene_number],
               results |-> <<>>]

\* a free worker thread takes the oldest queued task
worker_start(k) ==
    /\ fan.call = "running"
    /\ fan.task[k] = "queued"
    /\ \A h \in 1..(k - 1) : fan.task[h] # "queued"
    /\ NumRunning(fan) < fan.workers
    /\ fan' = [fan EXCEPT !.task[k] = "running"]

\* task k ends with `outcome`; in the sequential branch nothing catches the
\* exception of a task, so generate_images raises
worker_finish(k, outcome) ==
    /\ fan.call = "running"
    /\ fan.task[k] = "running"
    /\ outcome \in (IF fan.mode = "audio" THEN AudioOutcomes ELSE ImageOutcomes)
    /\ fan' = [fan EXCEPT !.task[k] = outcome,
                          !.call = IF fan.mode = "sequential" /\ outcome = "raised"
                                   THEN "raised" ELSE @]

\* completed_results[i] for i in range(len(prompts)) if it is not None
RECURSIVE CompletedResults(_, _)
CompletedResults(task, k) ==
    IF k > Len(task) THEN <<>>
    ELSE IF task[k] = "raised" THEN CompletedResults(task, k + 1)
    ELSE <<ImageResult(k, task[k])>> \o CompletedResults(task, k + 1)

\* the list the call returns once every task has ended
FanResults(f) ==
    CASE f.mode = "parallel" -> CompletedResults(f.task, 1)
      [] f.mode = "sequential" -> [k \in 1..Len(f.task) |-> ImageResult(k, f.task[k])]
      [] OTHER -> [k \in 1..Len(f.task) |->
                      SceneResult(f.numbers[k], f.task[k] # "skipped", f.task[k])]

\* the executor's `with` block ends when every task has ended; the call returns
fan_return ==
    /\ fan.call = "running"
    /\ \A k \in 1..Len(fan.task) : Finished(fan.task[k])
    /\ fan' = [fan EXCEPT !.call = "returned", !.results = FanResults(fan)]

\* --------------------- generators/generator.py: generate_video_scenes loop
\* The loop runs on one thread; every call of the Runware client blocks it. A
\* step of the model is one submission (generate_video) with the handling of
\* its result, or the rest of a scene's iteration (wait_for_completion,
\* download_file, _extract_last_frame, upload_image).

\* max_retries of the submission loop
max_retries == 2

\* how runware.generate_video ends: it returns, it raises an error whose text
\* holds failedToTransferImage, or it raises another error
SubmitOutcomes == {"ok", "transfer", "error"}
\* how the rest of the iteration ends: wait_for_completion raises, the result
\* has no URL, download_file raises, or the clip is saved
ClipOutcomes == {"poll_raised", "nourl", "download_raised", "clip"}

\* the uploaded last frame of the clip of scene i
FrameOf(i) == [kind |-> "frame", scene |-> i]
\* the handle of the k-th generated image
ImageOf(k) == [kind |-> "image", scene |-> k]

ChainIdle ==
    [call |-> "idle", n |-> 0, scenes |-> <<>>, images |-> <<>>, use_last_frame |-> FALSE, i |-> 0,
     pc |-> "none", image_uuid |-> None, previous_frame_uuid |-> None,
     retry_count |-> 0, subs |-> <<>>, outcomes |-> <<>>, sleeps |-> <<>>,
     results |-> <<>>]

\* scene.get("scene_number", i): a scene dictionary carries a number of its
\* own (taken from the text of the language model) or none, and then counts
\* as its position
scene_num(scenes, i) == IF scenes[i] # None THEN scenes[i][1] ELSE i

\* generated_images[(i - 1) % len(generated_images)].get("image_uuid")
MatchedImage(images, i) == images[((i - 1) % Len(images)) + 1]

\* the first frame of scene i: the last frame of the previous video, else the
\* generated image matching the scene
SelectSeed(i, previous_frame_uuid, images, use_last_frame) ==
    LET first == IF use_last_frame /\ previous_frame_uuid # None
                 THEN previous_frame_uuid ELSE None
    IN  IF first = None /\ Len(images) > 0 THEN MatchedImage(images, i) ELSE first

\* the top of the loop body for scene i
BeginScene(c, i) ==
    [c EXCEPT !.i = i, !.pc = "submit", !.retry_count = 0, !.subs = <<>>,
              !.outcomes = <<>>, !.sleeps = <<>>,
              !.image_uuid = SelectSeed(i, c.previous_frame_uuid, c.images, c.use_last_frame)]

\* an exception leaves generate_video_scenes
Raise(c) == [c EXCEPT !.call = "raised", !.pc = "none"]

\* `while retry_count <= max_retries`; after the loop a video_result of None
\* raises "Failed to generate video after all retries"
LoopCheck(c) == IF c.retry_count <= max_retries THEN c ELSE Raise(c)

\* the Fallthrough variant that does not count the failed submission
Fallthrough_uncounted(c) ==
    IF c.retry_count > max_retries THEN Raise(c) ELSE LoopCheck(c)

\* lines 409-413: re-raise when the retries are exhausted, else count one more
Fallthrough(c) ==
    IF c.retry_count > max_retries THEN Raise(c)
    ELSE LoopCheck([c EXCEPT !.retry_count = @ + 1])

\* the AfterTransferError variant that waits 2 seconds before every retry
AfterTransferError_constant_wait(c) ==
    LET c1 == [c EXCEPT !.retry_count = @ + 1]
    IN  IF c.image_uuid = c.previous_frame_uuid /\ Len(c.images) > 0
        THEN IF MatchedImage(c.images, c.i) # None
             THEN LoopCheck([c1 EXCEPT !.image_uuid = MatchedImage(c.images, c.i)])
             ELSE Fallthrough(c1)
        ELSE IF c1.retry_count <= max_retries
        THEN LoopCheck([c1 EXCEPT !.sleeps = Append(@, 2)])
        ELSE Fallthrough(c1)

\* lines 390-408: a failedToTransferImage error; the retry with the same image
\* waits wait_time = 2 * retry_count seconds (time.sleep)
AfterTransferError(c) ==
    LET c1 == [c EXCEPT !.retry_count = @ + 1]
    IN  IF c.image_uuid = c.previous_frame_uuid /\ Len(c.images) > 0
        THEN IF MatchedImage(c.images, c.i) # None
             THEN LoopCheck([c1 EXCEPT !.image_uuid = MatchedImage(c.images, c.i)])
             ELSE Fallthrough(c1)
        ELSE IF c1.retry_count <= max_retries
        THEN LoopCheck([c1 EXCEPT !.sleeps = Append(@, 2 * c1.retry_count)])
        ELSE Fallthrough(c1)

\* one pass of the submission loop: generate_video is called with image_uuid
AfterSubmit(c, outcome) ==
    LET c1 == [c EXCEPT !.subs = Append(@, c.image_uuid),
                        !.outcomes = Append(@, outcome)]
    IN  CASE outcome = "ok" -> [c1 EXCEPT !.pc = "poll"]
          [] outcome = "transfer" -> AfterTransferError(c1)
          [] OTHER -> Fallthrough(c1)

\* the EndScene variant that records only the scenes that have a clip
EndScene_clips_only(c, clip, frame_ok) ==
    IF clip \in {"poll_raised", "download_raised"} THEN Raise(c)
    ELSE LET c1 == [c EXCEPT !.results =
                       IF clip = "clip"
                       THEN Append(@, [scene_number |-> scene_num(c.scenes, c.i),
                                       has_video |-> TRUE])
                       ELSE @]
         IN  IF c.i = c.n THEN [c1 EXCEPT !.call = "done", !.pc = "none"]
             ELSE BeginScene(c1, c.i + 1)

\* lines 418-474: the clip is awaited and saved, its last frame is uploaded
\* when `use_last_frame and video_path and i < len(scenes) - 1`, the result is
\* appended; then the loop goes on with the next scene
EndScene(c, clip, frame_ok) ==
    IF clip \in {"poll_raised", "download_raised"} THEN Raise(c)
    ELSE LET video_path == clip = "clip"
             frame == IF c.use_last_frame /\ video_path /\ c.i < c.n - 1
                      THEN IF frame_ok THEN Some(FrameOf(c.i)) ELSE None
                      ELSE c.previous_frame_uuid
             c1 == [c EXCEPT !.previous_frame_uuid = frame,
                             !.results = Append(@, [scene_number |-> scene_num(c.scenes, c.i),
                                                    has_video |-> video_path])]
         IN  IF c.i = c.n THEN [c1 EXCEPT !.call = "done", !.pc = "none"]
             ELSE BeginScene(c1, c.i + 1)

\* generate_video_scenes(scenes, generated_images, use_last_frame=...) up to
\* its first submission
generate_video_scenes(scenes, images, use_last_frame) ==
    /\ chain.call = "idle"
    /\ LET n == Len(scenes)
           c == [ChainIdle EXCEPT !.call = "running", !.n = n, !.scenes = scenes,
                                  !.images = images, !.use_last_frame = use_last_frame]
       IN  chain' = IF n = 0 THEN [c EXCEPT !.call = "done"] ELSE BeginScene(c, 1)

submit_video(outcome) ==
    /\ chain.call = "running"
    /\ chain.pc = "submit"
    /\ chain' = AfterSubmit(chain, outcome)

finish_scene(clip, frame_ok) ==
    /\ chain.call = "running"
    /\ chain.pc = "poll"
    /\ chain' = EndScene(chain, clip, frame_ok)

\* ------------- scripts/utils/video_audio_merger.py: crossfade concatenation
\* Durations are counted in tenths of a second. A step of the model is the
\* code of concatenate_videos_with_transitions up to the ffmpeg process, the
\* run of that process with the handling of its end, or the call of
\* concatenate_videos made by an except clause.

\* transition_duration of the caller and of the default argument: 0.3 s
transition_duration == 3
\* duration taken for a clip whose ffprobe information is missing: 10.0 s
AssumedDuration == 100
\* durations of the scene clips: 5 s and 10 s
ClipDurations == {50, 100}
\* a clip file: its duration, whether ffprobe can read it, whether it exists
Clips == [duration : ClipDurations, probed : BOOLEAN, exists : BOOLEAN]

\* how the ffmpeg process of the crossfade ends: exit status 0, a non-zero exit
\* status, no ffmpeg executable, or another exception raised inside the try
FfmpegOutcomes == {"ok", "CalledProcessError", "FileNotFoundError", "Exception"}

AsmIdle ==
    [call |-> "idle", clips |-> <<>>, pc |-> "none", offsets |-> <<>>,
     crossfade |-> "none", fallback |-> "none", result |-> None,
     picture |-> 0, sound |-> 0]

\* the list video_durations
video_durations(clips) ==
    [i \in 1..Len(clips) |->
        IF clips[i].probed THEN clips[i].duration ELSE AssumedDuration]

RECURSIVE Cumulative(_, _)
\* the variable `cumulative` once the clips 1..k are chained, k >= 2
Cumulative(vd, k) ==
    IF k = 2 THEN vd[1] + vd[2] - 2 * transition_duration
    ELSE Cumulative(vd, k - 1) + vd[k] - transition_duration

\* the offset given to the xfade that brings in clip k, k >= 2
Offset(vd, k) ==
    IF k = 2 THEN vd[1] - transition_duration
    ELSE Cumulative(vd, k - 1) - transition_duration

\* the offsets of the filter graph, one per transition
Offsets(clips) ==
    [j \in 1..(Len(clips) - 1) |-> Offset(video_durations(clips), j + 1)]

\* xfade: the output runs from the start of the first stream to the end of the
\* second one, which starts at offset
Xfade(first, second, offset) == offset + second
\* acrossfade: the end of the first stream overlaps the start of the second
Acrossfade(first, second) == first + second - transition_duration

RECURSIVE PictureLength(_, _, _)
\* length of the stream [vx<k-1>] ([v0] for k = 1)
PictureLength(clips, offsets, k) ==
    IF k = 1 THEN clips[1].duration
    ELSE Xfade(PictureLength(clips, offsets, k - 1), clips[k].duration, offsets[k - 1])

RECURSIVE SoundLength(_, _)
\* length of the stream [ax<k-1>] ([a0] for k = 1)
SoundLength(clips, k) ==
    IF k = 1 THEN clips[1].duration
    ELSE Acrossfade(SoundLength(clips, k - 1), clips[k].duration)

RECURSIVE TotalDuration(_)
TotalDuration(clips) ==
    IF clips = <<>> THEN 0 ELSE clips[1].duration + TotalDuration(Tail(clips))

\* concatenate_videos_with_transitions up to subprocess.run; copy_ok is the
\* outcome of shutil.copy2 for a single clip
concatenate_videos_with_transitions(clips, copy_ok) ==
    /\ asm.call = "idle"
    /\ asm' =
        IF clips = <<>> THEN
            [AsmIdle EXCEPT !.call = "raised"]
        ELSE IF Len(clips) < 2 THEN
            [AsmIdle EXCEPT !.call = "returned", !.clips = clips,
                            !.result = Some(copy_ok /\ clips[1].exists),
                            !.picture = IF copy_ok /\ clips[1].exists
                                        THEN clips[1].duration ELSE 0,
                            !.sound = IF copy_ok /\ clips[1].exists
                                      THEN clips[1].duration ELSE 0]
        ELSE IF \E i \in 1..Len(clips) : ~clips[i].exists THEN
            [AsmIdle EXCEPT !.call = "raised", !.clips = clips]
        ELSE
            [AsmIdle EXCEPT !.call = "running", !.clips = clips,
                            !.pc = "ffmpeg", !.offsets = Offsets(clips)]

\* subprocess.run(cmd, check=True) and the except clauses
run_ffmpeg(outcome) ==
    /\ asm.call = "running"
    /\ asm.pc = "ffmpeg"
    /\ asm' =
        CASE outcome = "ok" ->
                [asm EXCEPT !.call = "returned", !.pc = "none", !.crossfade = outcome,
                            !.result = Some(TRUE),
                            !.picture = PictureLength(asm.clips, asm.offsets, Len(asm.clips)),
                            !.sound = SoundLength(asm.clips, Len(asm.clips))]
          [] outcome = "FileNotFoundError" ->
                [asm EXCEPT !.call = "returned", !.pc = "none", !.crossfade = outcome,
                            !.result = Some(FALSE)]
          [] OTHER ->
                [asm EXCEPT !.pc = "fallback", !.crossfade = outcome]

\* return concatenate_videos(video_paths, ...): the concat demuxer joins the
\* clips without re-encoding, or fails
concatenate_videos(ok) ==
    /\ asm.call = "running"
    /\ asm.pc = "fallback"
    /\ asm' = [asm EXCEPT !.call = "returned", !.pc = "none",
                          !.fallback = IF ok THEN "ok" ELSE "failed",
                          !.result = Some(ok),
                          !.picture = IF ok THEN TotalDuration(asm.clips) ELSE 0,
                          !.sound = IF ok THEN TotalDuration(asm.clips) ELSE 0]

\* ------------ generators/generator.py: duration submitted for a scene
\* lines 328-344: a KlingAI model takes 5 or 10 seconds, other models take the
\* duration of the scene description
adjusted_duration(klingai, original_duration) ==
    IF klingai
    THEN IF original_duration <= 5 THEN 5
         ELSE IF original_duration <= 10 THEN 10
         ELSE 10
    ELSE original_duration

DurIdle == [state |-> "idle", klingai |-> FALSE, original_duration |-> 0, duration |-> 0]

\* the top of the loop body for a scene of `original_duration` seconds
adjust_duration ==
    /\ dur.state = "scene"
    /\ dur' = [dur EXCEPT !.state = "adjusted",
                          !.duration = adjusted_duration(dur.klingai, dur.original_duration)]

\* ---- generator.py: per-scene merge; generate_complete_video.py: step 4
\* a scene result after the audio fan-out: whether it has a video_path and
\* whether audio_files holds an audio file
MergeInputs ==
    {r \in [has_video : BOOLEAN, has_audio : BOOLEAN] : r.has_audio => r.has_video}

\* the result with the scene_number the loop gave it
Numbered(r, scene_number) ==
    [scene_number |-> scene_number, has_video |-> r.has_video, has_audio |-> r.has_audio]

PipeIdle == [state |-> "idle", scenes |-> <<>>, concat |-> "none", segments |-> <<>>]

\* generator.py 500-528: a scene with a video and an audio file is merged, and
\* gets a final_video_path when merge_video_audio returns True
merge_scenes(results, merge_ok) ==
    /\ pipe.state = "idle"
    /\ pipe' = [PipeIdle EXCEPT
                  !.state = "merged",
                  !.scenes = [k \in 1..Len(results) |->
                                [scene_number |-> results[k].scene_number,
                                 has_video |-> results[k].has_video,
                                 has_audio |-> results[k].has_audio,
                                 final_video_path |->
                                     /\ results[k].has_video
                                     /\ results[k].has_audio
                                     /\ merge_ok[k]]]]

RECURSIVE FinalVideos(_)
\* [v for v in generated_videos if v.get("final_video_path")], as scene numbers
FinalVideos(scenes) ==
    IF scenes = <<>> THEN <<>>
    ELSE IF Head(scenes).final_video_path
    THEN <<Head(scenes).scene_number>> \o FinalVideos(Tail(scenes))
    ELSE FinalVideos(Tail(scenes))

RECURSIVE InsertNumber(_, _)
\* x put behind the numbers of a sorted list that are not larger
InsertNumber(x, sorted) ==
    IF sorted = <<>> THEN <<x>>
    ELSE IF Head(sorted) <= x THEN <<Head(sorted)>> \o InsertNumber(x, Tail(sorted))
    ELSE <<x>> \o sorted

RECURSIVE SortedByNumber(_)
\* sorted(final_videos, key=lambda v: v.get("scene_number", 999))
SortedByNumber(numbers) ==
    IF numbers = <<>> THEN <<>>
    ELSE InsertNumber(numbers[Len(numbers)],
                      SortedByNumber(SubSeq(numbers, 1, Len(numbers) - 1)))

RECURSIVE ExistingVideos(_, _, _)
\* line 788, [p for p in video_paths if p and os.path.exists(p)], as scene
\* numbers: the final videos from scene k on whose file is on disk. The filter
\* keeps the order of the list, so it is taken before the sort here.
ExistingVideos(scenes, on_disk, k) ==
    IF k > Len(scenes) THEN <<>>
    ELSE IF scenes[k].final_video_path /\ on_disk[k]
    THEN <<scenes[k].scene_number>> \o ExistingVideos(scenes, on_disk, k + 1)
    ELSE ExistingVideos(scenes, on_disk, k + 1)

\* generate_complete_video.py 765-816 with --audio-mode per-scene: the final
\* videos, sorted by scene_number, whose file is on disk (on_disk[k] for the
\* file of the k-th scene) are handed to concatenate_videos_with_transitions,
\* which returns `ok`; without a final video, or with none on disk, nothing is
\* combined
combine_final_video(on_disk, ok) ==
    /\ pipe.state = "merged"
    /\ LET final_videos == FinalVideos(pipe.scenes)
           video_paths == SortedByNumber(ExistingVideos(pipe.scenes, on_disk, 1))
           called == final_videos # <<>> /\ video_paths # <<>>
       IN  pipe' = [pipe EXCEPT
                      !.state = "combined",
                      !.concat = IF ~called THEN "none"
                                 ELSE IF ok THEN "ok" ELSE "failed",
                      !.segments = IF called /\ ok THEN video_paths ELSE <<>>]

\* ----------- generators/runware_client.py: RunwareClient.wait_for_completion
\* Time is counted in seconds since start_time. A step of the model is one
\* pass of the `while True` loop: the status request, the handling of its
\* answer and, when the loop goes on, time.sleep(poll_interval).

\* wait_for_completion(task_uuid, poll_interval=5, max_wait=600) as called for
\* a scene video
poll_interval == 5
max_wait == 600

\* the task status of an answer: a status the loop keeps polling on, a status
\* it does not know (and no URL), a completed task, a failed task
StatusResponses == {"processing", "pending", "unknown", "completed", "failed"}

\* what a call of check_task_status does: it returns an answer, or the status
\* request fails (a RequestException: HTTP error, no connection, time-out, a
\* body that is not JSON) and it raises "Failed to check task status"
CheckOutcomes == StatusResponses \cup {"raised"}

PollIdle == [state |-> "idle", now |-> 0, elapsed |-> 0, polls |-> 0, last |-> "none"]

wait_for_completion ==
    /\ poll.state = "idle"
    /\ poll' = [PollIdle EXCEPT !.state = "polling"]

\* the poll_step variant whose processing branch does not look at the time
poll_step_unchecked(p, response, latency) ==
    LET elapsed == p.now + latency
        p1 == [p EXCEPT !.now = elapsed, !.elapsed = elapsed, !.polls = @ + 1,
                        !.last = response]
    IN  CASE response = "raised" -> [p1 EXCEPT !.state = "raised"]
          [] response \in {"processing", "pending"} ->
                [p1 EXCEPT !.now = @ + poll_interval]
          [] response = "completed" -> [p1 EXCEPT !.state = "completed"]
          [] response = "failed" -> [p1 EXCEPT !.state = "task_failed"]
          [] OTHER ->
                IF elapsed > max_wait THEN [p1 EXCEPT !.state = "timeout"]
                ELSE [p1 EXCEPT !.now = @ + poll_interval]

\* one pass of the loop: check_task_status takes `latency` seconds and answers
\* `response`; when it raises, the exception leaves wait_for_completion, which
\* has no try/except around the call
poll_step(p, response, latency) ==
    LET elapsed == p.now + latency
        p1 == [p EXCEPT !.now = elapsed, !.elapsed = elapsed, !.polls = @ + 1,
                        !.last = response]
    IN  CASE response = "raised" -> [p1 EXCEPT !.state = "raised"]
          [] response \in {"processing", "pending"} ->
                IF elapsed > max_wait THEN [p1 EXCEPT !.state = "timeout"]
                ELSE [p1 EXCEPT !.now = @ + poll_interval]
          [] response = "completed" -> [p1 EXCEPT !.state = "completed"]
          [] response = "failed" -> [p1 EXCEPT !.state = "task_failed"]
          [] OTHER ->
                IF elapsed > max_wait THEN [p1 EXCEPT !.state = "timeout"]
                ELSE [p1 EXCEPT !.now = @ + poll_interval]

check_and_sleep(response, latency) ==
    /\ poll.state = "polling"
    /\ poll' = poll_step(poll, response, latency)

\* the scripts at rest
ScriptsIdle ==
    /\ fan = FanIdle
    /\ chain = ChainIdle
    /\ asm = AsmIdle
    /\ dur = DurIdle
    /\ pipe = PipeIdle
    /\ poll = PollIdle

\* ------------------------------------------------------------ specification
\* the scene descriptions generate-descriptions stored in the session
SessionDescriptions == <<SceneDescription("hook"), SceneDescription("problem")>>

Init ==
    /\ jobs = EmptyMap
    /\ tasks = EmptyMap
    /\ njobs = 0
    /\ connected = FALSE
    /\ sessions = [s \in SessionIds |-> NewSession(SessionDescriptions)]
    /\ regens = EmptyMap
    /\ calls = <<>>
    /\ ScriptsIdle

Submit ==
    /\ njobs < MaxJobs
    /\ \E descs \in SceneLists, sid \in SessionIds :
          /\ TasksCreated + Len(descs) <= MaxTasks
          /\ generate_videos_parallel(descs, sid)
    /\ UNCHANGED <<calls, scriptVars>>

ExecuteParallelGeneration ==
    /\ \E j \in DOMAIN tasks : execute_parallel_generation(j)
    /\ UNCHANGED <<calls, scriptVars>>

TaskStep ==
    /\ \E j \in DOMAIN tasks : \E k \in 1..Len(tasks[j]) :
          \/ TaskConnected(j, k)
          \/ \E msg \in ExceptionMessages : TaskRaised(j, k, msg)
          \/ \E res \in InferenceResults : TaskInferred(j, k, res)
          \/ \E ok \in BOOLEAN : TaskDownloaded(j, k, ok)
    /\ UNCHANGED <<calls, scriptVars>>

GetStatus ==
    /\ \E job_id \in RequestJobIds : get_video_status(job_id)
    /\ UNCHANGED <<calls, scriptVars>>

\* a request that starts a generation needs a job id and a coroutine
Regenerate ==
    /\ \E sid \in SessionIds, s \in RequestScenarios :
          /\ \/ RegenerateRejection(sessions, sid, s) # None
             \/ njobs < MaxJobs /\ TasksCreated < MaxTasks
          /\ regenerate_scene(sid, s)
    /\ UNCHANGED <<calls, scriptVars>>

RegenerateProgress ==
    /\ \E id \in DOMAIN regens :
          \/ RegenerateConnected(id)
          \/ \E msg \in ExceptionMessages : RegenerateRaised(id, msg)
          \/ \E res \in InferenceResults : RegenerateInferred(id, res)
          \/ \E ok \in BOOLEAN : RegenerateDownloaded(id, ok)
    /\ UNCHANGED <<calls, scriptVars>>

SessionExpires ==
    /\ \E sid \in SessionIds : Expire(sid)
    /\ UNCHANGED <<calls, scriptVars>>

Disconnect ==
    /\ disconnect
    /\ UNCHANGED scriptVars

CreateSession ==
    /\ \E sid \in SessionIds : create_session(sid)
    /\ UNCHANGED <<calls, scriptVars>>

ReadSession ==
    /\ \E sid \in SessionIds : read_session(sid)
    /\ UNCHANGED <<calls, scriptVars>>

DeleteSession ==
    /\ \E sid \in SessionIds : delete_session(sid)
    /\ UNCHANGED <<calls, scriptVars>>

CleanupSessions ==
    /\ cleanup_expired_sessions
    /\ UNCHANGED <<calls, scriptVars>>

\* what OpenAI answers to a description request: a list of scenes, or an error
DescriptionAnswers == {None} \cup {Some(descs) : descs \in SceneLists}

GenerateDescriptions ==
    /\ \E sid \in SessionIds, ready \in BOOLEAN, found \in BOOLEAN :
          generate_descriptions(sid, ready, found)
    /\ UNCHANGED scriptVars

RegenerateDescription ==
    /\ \E sid \in SessionIds, s \in RequestScenarios : regenerate_description(sid, s)
    /\ UNCHANGED scriptVars

\* a suspended coroutine is resumed with what its external call gave
CallReturns ==
    /\ \E k \in 1..Len(calls) :
          \/ \E ok \in BOOLEAN : DisconnectReturned(k, ok)
          \/ \E answer \in DescriptionAnswers : DescriptionsGenerated(k, answer)
          \/ \E answer \in DescriptionAnswers : DescriptionRegenerated(k, answer)
    /\ UNCHANGED scriptVars

\* POST /api/videos/generate-scenes
GenerateScenes ==
    /\ \E sid \in SessionIds : generate_scenes(sid)
    /\ UNCHANGED <<calls, scriptVars>>

Next ==
    \/ Submit
    \/ ExecuteParallelGeneration
    \/ TaskStep
    \/ GetStatus
    \/ Regenerate
    \/ RegenerateProgress
    \/ SessionExpires
    \/ Disconnect
    \/ CreateSession
    \/ ReadSession
    \/ DeleteSession
    \/ CleanupSessions
    \/ GenerateDescriptions
    \/ RegenerateDescription
    \/ CallReturns
    \/ GenerateScenes

Spec == Init /\ [][Next]_vars

\* ---------------------------------------- specification of the fan-out calls
\* the scene_number entry of a scene dictionary: none, or a number of its own
SceneNumbers == {None} \cup {Some(k) : k \in 1..MaxSceneNumber}

\* the lists of n scene dictionaries handed to the loop: at most one scene
\* carries a number of its own, which may repeat or precede its neighbours'
ChainScenes(n) ==
    {scenes \in [1..n -> SceneNumbers] :
        Cardinality({k \in 1..n : scenes[k] # None}) <= 1}

\* the results the loop hands to the audio fan-out: the scenes carry the
\* numbers of their dictionaries, and the first m of them have no video_path
LoopResults ==
    UNION {{[k \in 1..n |-> [scene_number |-> scene_num(scenes, k), has_video |-> k > m]] :
               scenes \in ChainScenes(n), m \in 0..1} : n \in 0..MaxPrompts}


GenerateImages ==
    /\ \E n \in 0..MaxPrompts, parallel \in BOOLEAN : generate_images(n, parallel)
    /\ UNCHANGED <<serviceVars, chain, asm, dur, pipe, poll>>

AudioFanOut ==
    /\ fan.call = "idle"
    /\ \E results \in LoopResults : audio_fan_out(results)
    /\ UNCHANGED <<serviceVars, chain, asm, dur, pipe, poll>>

WorkerStart ==
    /\ \E k \in 1..Len(fan.task) : worker_start(k)
    /\ UNCHANGED <<serviceVars, chain, asm, dur, pipe, poll>>

WorkerFinish ==
    /\ \E k \in 1..Len(fan.task), outcome \in ImageOutcomes \cup AudioOutcomes :
          worker_finish(k, outcome)
    /\ UNCHANGED <<serviceVars, chain, asm, dur, pipe, poll>>

FanReturn ==
    /\ fan_return
    /\ UNCHANGED <<serviceVars, chain, asm, dur, pipe, poll>>

NextFanOut ==
    \/ GenerateImages
    \/ AudioFanOut
    \/ WorkerStart
    \/ WorkerFinish
    \/ FanReturn

SpecFanOut == Init /\ [][NextFanOut]_vars

\* ------------------------- specification of one job started through the API
\* the four scenes generate-descriptions is asked for
RequiredScenes == [i \in 1..Len(required_scenarios) |-> SceneDescription(required_scenarios[i])]

\* what parse_scene_descriptions_response can leave in a session: the four
\* scenes, the four scenes and a repeated section, or an incomplete list
ApiSceneLists ==
    {RequiredScenes, Append(RequiredScenes, SceneDescription("hook")), SessionDescriptions}

InitJob ==
    /\ jobs = EmptyMap
    /\ tasks = EmptyMap
    /\ njobs = 0
    /\ connected = FALSE
    /\ \E descs \in ApiSceneLists : sessions = [s \in SessionIds |-> NewSession(descs)]
    /\ regens = EmptyMap
    /\ calls = <<>>
    /\ ScriptsIdle

\* the handler is called while the service holds no job
GenerateScenesOnce ==
    /\ jobs = EmptyMap
    /\ GenerateScenes

NextJob ==
    \/ GenerateScenesOnce
    \/ ExecuteParallelGeneration
    \/ TaskStep
    \/ GetStatus

SpecJob == InitJob /\ [][NextJob]_vars

\* ------------------------------ specification of the frame-chained generator
\* generated_images: up to one entry per scene, each with or without a handle
RECURSIVE ImageLists(_)
ImageLists(n) ==
    IF n = 0 THEN {<<>>}
    ELSE LET prev == ImageLists(n - 1)
         IN  prev \cup {Append(q, x) : q \in {p \in prev : Len(p) = n - 1},
                                       x \in {None, Some(ImageOf(n))}}

GenerateVideoScenes ==
    /\ chain.call = "idle"
    /\ \E n \in 0..MaxChainScenes, use_last_frame \in BOOLEAN :
          \E scenes \in ChainScenes(n), images \in ImageLists(n) :
              generate_video_scenes(scenes, images, use_last_frame)
    /\ UNCHANGED <<serviceVars, fan, asm, dur, pipe, poll>>

SubmitVideo ==
    /\ \E outcome \in SubmitOutcomes : submit_video(outcome)
    /\ UNCHANGED <<serviceVars, fan, asm, dur, pipe, poll>>

FinishScene ==
    /\ \E clip \in ClipOutcomes, frame_ok \in BOOLEAN : finish_scene(clip, frame_ok)
    /\ UNCHANGED <<serviceVars, fan, asm, dur, pipe, poll>>

NextChain ==
    \/ GenerateVideoScenes
    \/ SubmitVideo
    \/ FinishScene

SpecChain == Init /\ [][NextChain]_vars

\* ------------------------------- specification of the crossfade assembly
RECURSIVE ClipLists(_)
\* the lists of n clips
ClipLists(n) ==
    IF n = 0 THEN {<<>>}
    ELSE {Append(q, c) : q \in ClipLists(n - 1), c \in Clips}

ConcatenateWithTransitions ==
    /\ \E n \in 0..MaxClips : \E clips \in ClipLists(n) : \E copy_ok \in BOOLEAN :
          concatenate_videos_with_transitions(clips, copy_ok)
    /\ UNCHANGED <<serviceVars, fan, chain, dur, pipe, poll>>

RunFfmpeg ==
    /\ \E outcome \in FfmpegOutcomes : run_ffmpeg(outcome)
    /\ UNCHANGED <<serviceVars, fan, chain, dur, pipe, poll>>

ConcatenateVideos ==
    /\ \E ok \in BOOLEAN : concatenate_videos(ok)
    /\ UNCHANGED <<serviceVars, fan, chain, dur, pipe, poll>>

NextAssembly ==
    \/ ConcatenateWithTransitions
    \/ RunFfmpeg
    \/ ConcatenateVideos

SpecAssembly == Init /\ [][NextAssembly]_vars

\* ------------------------------ specification of the duration adjustment
\* a scene of a positive whole number of seconds, for a KlingAI model or not
InitDuration ==
    /\ jobs = EmptyMap
    /\ tasks = EmptyMap
    /\ njobs = 0
    /\ connected = FALSE
    /\ sessions = [s \in SessionIds |-> NewSession(SessionDescriptions)]
    /\ regens = EmptyMap
    /\ calls = <<>>
    /\ fan = FanIdle
    /\ chain = ChainIdle
    /\ asm = AsmIdle
    /\ pipe = PipeIdle
    /\ poll = PollIdle
    /\ \E klingai \in BOOLEAN, d \in 1..MaxDuration :
          dur = [DurIdle EXCEPT !.state = "scene", !.klingai = klingai,
                                !.original_duration = d]

AdjustDuration ==
    /\ adjust_duration
    /\ UNCHANGED <<serviceVars, fan, chain, asm, pipe, poll>>

NextDuration == AdjustDuration

SpecDuration == InitDuration /\ [][NextDuration]_vars

\* ------------- specification of the per-scene merge and final combination
RECURSIVE MergeInputLists(_)
MergeInputLists(n) ==
    IF n = 0 THEN {<<>>}
    ELSE {Append(q, r) : q \in MergeInputLists(n - 1), r \in MergeInputs}

MergeScenes ==
    /\ pipe.state = "idle"
    /\ \E n \in 0..MaxMergeScenes :
          \E inputs \in MergeInputLists(n), scenes \in [1..n -> SceneNumbers] :
             \E merge_ok \in [1..n -> BOOLEAN] :
                merge_scenes([k \in 1..n |-> Numbered(inputs[k], scene_num(scenes, k))],
                             merge_ok)
    /\ UNCHANGED <<serviceVars, fan, chain, asm, dur, poll>>

CombineFinalVideo ==
    /\ pipe.state = "merged"
    /\ \E on_disk \in [1..Len(pipe.scenes) -> BOOLEAN], ok \in BOOLEAN :
          combine_final_video(on_disk, ok)
    /\ UNCHANGED <<serviceVars, fan, chain, asm, dur, poll>>

NextMerge ==
    \/ MergeScenes
    \/ CombineFinalVideo

SpecMerge == Init /\ [][NextMerge]_vars

\* ----------------------------------------- specification of the polling
WaitForCompletion ==
    /\ wait_for_completion
    /\ UNCHANGED <<serviceVars, fan, chain, asm, dur, pipe>>

CheckAndSleep ==
    /\ \E response \in CheckOutcomes, latency \in 0..MaxLatency :
          check_and_sleep(response, latency)
    /\ UNCHANGED <<serviceVars, fan, chain, asm, dur, pipe>>

NextPoll ==
    \/ WaitForCompletion
    \/ CheckAndSleep

\* the calling thread runs: every status request is answered and every sleep ends
SpecPoll == Init /\ [][NextPoll]_vars /\ WF_vars(CheckAndSleep)

\* ---------------- the generate_scenes job under fair scheduling of the loop
\* a step of the k-th coroutine gathered for job j
CoroutineStep(j, k) ==
    /\ j \in DOMAIN tasks
    /\ k <= Len(tasks[j])
    /\ \/ TaskConnected(j, k)
       \/ \E msg \in ExceptionMessages : TaskRaised(j, k, msg)
       \/ \E res \in InferenceResults : TaskInferred(j, k, res)
       \/ \E ok \in BOOLEAN : TaskDownloaded(j, k, ok)
    /\ UNCHANGED <<calls, scriptVars>>

\* most coroutines one job of the handler gathers
MaxCoroutines == Len(required_scenarios) + 1

\* The event loop runs the task created for _execute_parallel_generation, and
\* resumes every coroutine whose external call has returned or raised.
FairJob ==
    /\ WF_vars(ExecuteParallelGeneration)
    /\ \A k \in 1..MaxCoroutines : WF_vars(CoroutineStep(1, k))

SpecJobFair == InitJob /\ [][NextJob]_vars /\ FairJob

\* ------------- specification of one job of four scenes whose scene 2 fails
\* the session holds the four required scenes
InitFourScenes ==
    /\ jobs = EmptyMap
    /\ tasks = EmptyMap
    /\ njobs = 0
    /\ connected = FALSE
    /\ sessions = [s \in SessionIds |-> NewSession(RequiredScenes)]
    /\ regens = EmptyMap
    /\ calls = <<>>
    /\ ScriptsIdle

\* the scene whose generation fails: the second one, `problem`
FailingScene ==
    CHOOSE i \in 1..Len(required_scenarios) : required_scenarios[i] = "problem"

\* a step of generate_single_video for scene k that lets the generation succeed
SucceedingStep(k) ==
    /\ k # FailingScene
    /\ \E j \in DOMAIN tasks :
          /\ k <= Len(tasks[j])
          /\ \/ TaskConnected(j, k)
             \/ TaskInferred(j, k, "ok")
             \/ TaskDownloaded(j, k, TRUE)
    /\ UNCHANGED <<calls, scriptVars>>

\* a step of generate_single_video for scene k on a way to its failure
FailingStep(k) ==
    /\ k = FailingScene
    /\ \E j \in DOMAIN tasks :
          /\ k <= Len(tasks[j])
          /\ \/ TaskConnected(j, k)
             \/ \E msg \in ExceptionMessages : TaskRaised(j, k, msg)
             \/ \E res \in InferenceResults : TaskInferred(j, k, res)
             \/ TaskDownloaded(j, k, FALSE)
    /\ UNCHANGED <<calls, scriptVars>>

NextScene2Fails ==
    \/ GenerateScenesOnce
    \/ ExecuteParallelGeneration
    \/ \E k \in 1..Len(RequiredScenes) : SucceedingStep(k)
    \/ \E k \in 1..Len(RequiredScenes) : FailingStep(k)
    \/ GetStatus

\* The event loop runs the task created for _execute_parallel_generation and
\* resumes every coroutine whose await has ended; in the scenario every
\* generation ends, so every await of every coroutine does.
FairScene2Fails ==
    /\ WF_vars(ExecuteParallelGeneration)
    /\ \A k \in 1..Len(RequiredScenes) : WF_vars(SucceedingStep(k)) /\ WF_vars(FailingStep(k))

SpecScene2Fails == InitFourScenes /\ [][NextScene2Fails]_vars /\ FairScene2Fails

\* ------- specification of regenerate-scene for a session of four scenes
\* POST /regenerate-scene, before, while or after the job of the session's
\* four scenes runs; a request that starts a generation needs a job id
RegenerateOneScene ==
    /\ \E sid \in SessionIds, s \in RequestScenarios :
          /\ \/ RegenerateRejection(sessions, sid, s) # None
             \/ njobs < MaxJobs
          /\ regenerate_scene(sid, s)
    /\ UNCHANGED <<calls, scriptVars>>

\* a step of a generate_single_video of the job, whose generations all
\* succeed: the session's scene-video list is filled from a completed job only
GenerationSucceeds ==
    /\ \E j \in DOMAIN tasks : \E k \in 1..Len(tasks[j]) :
          \/ TaskConnected(j, k)
          \/ TaskInferred(j, k, "ok")
          \/ TaskDownloaded(j, k, TRUE)
    /\ UNCHANGED <<calls, scriptVars>>

NextRegenerate ==
    \/ RegenerateOneScene
    \/ RegenerateProgress
    \/ GenerateScenesOnce
    \/ ExecuteParallelGeneration
    \/ GenerationSucceeds
    \/ GetStatus
    \/ SessionExpires

SpecRegenerate == InitFourScenes /\ [][NextRegenerate]_vars

\* ======================================================== properties
\* every VideoGenerationJob alive: the registered ones and the temporary ones
\* of the regenerate handlers
AllJobs == {jobs[j] : j \in DOMAIN jobs} \cup {regens[id].job : id \in DOMAIN regens}

NotStarted(j) == \A k \in 1..Len(tasks[j]) : tasks[j][k].pc = "created"

\* the scenarios of a scene list
ScenariosOf(ts) == [i \in 1..Len(ts) |-> ts[i].scene.scenario]

HasDuplicates(q) == \E a, b \in 1..Len(q) : a # b /\ q[a] = q[b]

OverallStatusRule(job) ==
    LET st == get_overall_status(job)
    IN  /\ (st = "completed") <=> AllStatus(job, "completed")
        /\ (st = "failed") <=> AllStatus(job, "failed")
        /\ (st = "generating") <=> AnyStatus(job, "generating")
        /\ (st = "partial") <=> /\ ~AllStatus(job, "completed")
                                /\ ~AllStatus(job, "failed")
                                /\ ~AnyStatus(job, "generating")

\* C1: for every job with at least one scene, get_overall_status is completed
\* iff all scenes are completed, failed iff all are failed, generating iff some
\* scene is generating, and partial in every other case; the job stores no
\* overall status, the value is derived from the scene statuses alone.
C1_OverallStatusDerived ==
    \A job \in AllJobs :
        /\ DOMAIN job = {"session_id", "scenes"}
        /\ job.scenes # <<>> => OverallStatusRule(job)

\* C1 witness: a registered job with one scene completed and one failed, whose
\* derived status is partial
C1_Witness ==
    \E j \in DOMAIN jobs :
        /\ AnyStatus(jobs[j], "completed")
        /\ AnyStatus(jobs[j], "failed")
        /\ get_overall_status(jobs[j]) = "partial"

\* C2: the overall_status that get_status reports for a job of the registry is
\* always one of generating, completed, failed, partial.
C2_OverallStatusDomain ==
    \A job_id \in RequestJobIds :
        LET response == VideoStatusResponse(jobs, job_id)
        IN  response.kind = "ok" =>
                response.overall_status \in {"generating", "completed", "failed", "partial"}

\* C3: a submit with an empty scene list, or with a list that names a scenario
\* twice, registers no job and schedules no generation work.
C3_InvalidListRejected ==
    \A j \in DOMAIN jobs \cup DOMAIN tasks :
        /\ tasks[j] # <<>>
        /\ ~HasDuplicates(ScenariosOf(tasks[j]))

\* C4: when submit returns for a list that is not empty and repeats no
\* scenario, the job holds one Scene Job per input scene, in input order, each
\* pending with progress 0, no result and no error, and a Scene Job is
\* generating only once its task was dispatched.
C4_PendingOnSubmit ==
    \A j \in DOMAIN jobs :
        /\ NotStarted(j)
        /\ tasks[j] # <<>>
        /\ ~HasDuplicates(ScenariosOf(tasks[j]))
        => /\ Len(jobs[j].scenes) = Len(tasks[j])
           /\ \A i \in 1..Len(jobs[j].scenes) :
                 jobs[j].scenes[i] =
                     [scenario |-> tasks[j][i].scene.scenario, status |-> "pending",
                      progress |-> 0, video_url |-> None, error |-> None]

\* C5: once a Scene Job is completed or failed, its status, result and error
\* never change again, and a generating Scene Job never returns to pending.
C5_NoRegression ==
    [][\A j \in DOMAIN jobs : \A i \in 1..Len(jobs[j].scenes) :
          LET before == jobs[j].scenes[i]
              after == jobs'[j].scenes[i]
          IN  /\ before.status \in {"completed", "failed"} =>
                    /\ after.status = before.status
                    /\ after.video_url = before.video_url
                    /\ after.error = before.error
              /\ before.status = "generating" => after.status # "pending"]_vars

\* C6: a Scene Job has a video_url only if its status is completed.
C6_ResultOnlyWhenCompleted ==
    \A job \in AllJobs : \A i \in 1..Len(job.scenes) :
        job.scenes[i].video_url # None => job.scenes[i].status = "completed"

\* C7: a Scene Job carries an error exactly when it is failed, and the error of
\* a failed Scene Job is a non-empty string.
C7_ErrorIffFailed ==
    \A job \in AllJobs : \A i \in 1..Len(job.scenes) :
        /\ job.scenes[i].error # None <=> job.scenes[i].status = "failed"
        /\ job.scenes[i].status = "failed" => TruthyStr(job.scenes[i].error)

\* C8: when regenerate-scene succeeds for a scenario, the finished Scene Job of
\* that scenario in the session's Generation Job holds the new result, so a
\* following get_status reports it.
C8_RegeneratedResultInJob ==
    [][\A id \in DOMAIN regens :
          RegenerateDownloaded(id, TRUE) =>
              \A j \in DOMAIN jobs' :
                  LET r == regens[id]
                      response == VideoStatusResponse(jobs', j)
                  IN  /\ jobs[j].session_id = r.session_id
                      /\ HasScene(jobs[j], r.desc.scenario)
                      /\ SceneOf(jobs[j], r.desc.scenario).status \in {"completed", "failed"}
                      => SceneOf(jobs'[j], r.desc.scenario).video_url =
                            Some(relative_path(r.session_id, r.desc.scenario, <<id, 1>>))
                         /\ response.scenes = jobs'[j].scenes]_vars

\* the entries of a scene-video list that belong to other scenarios than s
Siblings(videos, s) ==
    LET Other(v) == Lower(v.scenario) # Lower(s) IN SelectSeq(videos, Other)

\* a step of the regenerate handler `id` after its first suspension
RegenerateStepOf(id) ==
    \/ id \in DOMAIN regens /\ id \notin DOMAIN regens'
    \/ id \in DOMAIN regens /\ id \in DOMAIN regens' /\ regens'[id] # regens[id]

\* the scene-video list of a session; a session that is not in the store has
\* no entries
VideosOf(store, sid) == IF sid \in DOMAIN store THEN store[sid].scene_videos ELSE <<>>

\* no Scene Job of a registered job changes, and in every session of the store
\* but those of `gone` the entries of the scenarios other than s keep their
\* values and their relative order
SiblingsKept(s, gone) ==
    /\ jobs' = jobs
    /\ \A sid \in DOMAIN sessions \ gone :
          Siblings(VideosOf(sessions', sid), s) = Siblings(VideosOf(sessions, sid), s)

RemovedByRequest(sid) ==
    {x \in {sid} \cap DOMAIN sessions : sessions[x].expired}

C10_UnknownJobNotFound ==
    \A job_id \in RequestJobIds \ DOMAIN jobs :
        LET response == VideoStatusResponse(jobs, job_id)
        IN  /\ response.kind = "error"
            /\ response.status_code = 404
            /\ response.error_code # "VALIDATION_ERROR"

\* C11: when generate_images returns, the returned list is as long as the list
\* of prompts and its k-th entry is the outcome of the k-th prompt, whichever
\* tasks failed and in whatever order the tasks ended.
C11_ResultsAlignedWithInput ==
    fan.mode \in {"parallel", "sequential"} /\ fan.call = "returned" =>
        /\ Len(fan.results) = Len(fan.task)
        /\ \A k \in 1..Len(fan.results) : fan.results[k].index = k

\* C12: a task that raises never aborts its siblings: the call does not raise,
\* and when it has ended every other task was started and has its own outcome;
\* for generate_images in both modes and for the audio fan-out.
C12_FailureDoesNotAbortSiblings ==
    \A k \in 1..Len(fan.task) :
        fan.task[k] = "raised" =>
            /\ fan.call # "raised"
            /\ fan.call = "returned" => \A h \in 1..Len(fan.task) : Finished(fan.task[h])

\* the coroutines of job j that have started and not yet ended
RunningTasks(j) ==
    {k \in 1..Len(tasks[j]) : tasks[j][k].pc \in {"connect", "infer", "download"}}

\* C13: at no time do more than 4 tasks of one fan-out call execute at once,
\* be it a ThreadPoolExecutor fan-out or the scene tasks started by
\* generate_videos_parallel; the tasks beyond 4 wait.
C13_AtMostFourConcurrent ==
    /\ NumRunning(fan) <= MaxWorkers
    /\ \A j \in DOMAIN tasks : Cardinality(RunningTasks(j)) <= MaxWorkers

\* C14: in generate_video_scenes no submission for scene i is made before every
\* earlier scene has its outcome: while scene i is being submitted, the results
\* hold exactly the scenes 1..i-1, in order.
C14_NextSceneAfterTerminal ==
    chain.call = "running" /\ chain.subs # <<>> =>
        /\ Len(chain.results) = chain.i - 1
        /\ \A k \in 1..Len(chain.results) :
              chain.results[k].scene_number = scene_num(chain.scenes, k)

\* C14 witness: scene 3 has been submitted after a scene 2 that carries the
\* number 1 and ended without a clip
C14_Witness ==
    /\ chain.call = "running"
    /\ chain.i = 3
    /\ chain.subs # <<>>
    /\ chain.results[2].scene_number = 1
    /\ ~chain.results[2].has_video

\* C15: a scene whose submissions are exhausted or whose polling fails is
\* recorded as failed and the loop goes on: generate_video_scenes never ends
\* with an exception, and when it ends it has an outcome for every scene.
C15_FailedSceneDoesNotStopChain ==
    /\ chain.call # "raised"
    /\ chain.call = "done" => Len(chain.results) = chain.n

\* the seed is the Frame Continuity Token
IsToken(seed) == seed # None /\ seed[1].kind = "frame"
\* scene i has a static image handle of its own, the one at its position in
\* generated_images (MatchedImage is what the code takes, cycling the list)
HasOwnImage(c) == Len(c.images) >= c.i /\ c.images[c.i] # None

\* C16: when a submission seeded with the Frame Continuity Token fails with a
\* seed-transfer error and the scene has a static image handle of its own, the
\* scene is submitted again with that handle, and no later submission of the
\* scene uses the token.
C16_TokenFallbackToStaticImage ==
    /\ [][/\ chain.call = "running"
          /\ chain.pc = "submit"
          /\ IsToken(chain.image_uuid)
          /\ HasOwnImage(chain)
          /\ chain' = AfterSubmit(chain, "transfer")
          => /\ chain'.call = "running"
             /\ chain'.pc = "submit"
             /\ chain'.image_uuid = chain.images[chain.i]]_vars
    /\ [](\A a, b \in 1..Len(chain.subs) :
            a < b /\ ~IsToken(chain.subs[a]) => ~IsToken(chain.subs[b]))

\* C17: the submission loop of a scene makes at most max_retries + 1 = 3
\* submissions, whatever the errors and the seeds: every failed submission is
\* counted, and a further submission is made only while the count allows it.
C17_RetryLoopBounded ==
    /\ Len(chain.subs) <= max_retries + 1
    /\ chain.call = "running" /\ chain.pc = "submit" =>
          /\ chain.retry_count <= max_retries
          /\ Len(chain.subs) <= chain.retry_count

\* C17 witness: a scene seeded with the token whose transfer failed, that fell
\* back to its static image and ended, failed, after its third submission
C17_Witness ==
    /\ chain.call = "raised"
    /\ Len(chain.subs) = 3
    /\ IsToken(chain.subs[1])
    /\ chain.subs[2] # None
    /\ chain.subs[2][1].kind = "image"

\* C18: a crossfade of N >= 2 clips of measured durations yields a picture
\* stream of exactly the sum of the durations minus (N - 1) transitions, and a
\* sound stream of the same length.
C18_CrossfadeDuration ==
    /\ asm.call = "returned"
    /\ asm.crossfade = "ok"
    /\ \A i \in 1..Len(asm.clips) : asm.clips[i].probed
    => /\ asm.picture =
             TotalDuration(asm.clips) - (Len(asm.clips) - 1) * transition_duration
       /\ asm.sound = asm.picture

\* C19: when the crossfade fails, for whatever reason, concatenate_videos is
\* called and the call returns its result.
C19_FallbackOnAnyFailure ==
    asm.call = "returned" /\ asm.crossfade \notin {"none", "ok"} =>
        /\ asm.fallback # "none"
        /\ asm.result = Some(asm.fallback = "ok")

\* what get_status answers for job 1: scene 2 failed, the other three completed
\* with their videos, overall_status partial
Scene2FailedReported ==
    LET r == VideoStatusResponse(jobs, 1)
    IN  /\ r.kind = "ok"
        /\ r.overall_status = "partial"
        /\ Len(r.scenes) = Len(RequiredScenes)
        /\ \A i \in 1..Len(r.scenes) :
              /\ r.scenes[i].scenario = RequiredScenes[i].scenario
              /\ IF i = FailingScene
                 THEN r.scenes[i].status = "failed" /\ r.scenes[i].video_url = None
                 ELSE r.scenes[i].status = "completed" /\ r.scenes[i].video_url # None

\* C20: once the job of four scenes is registered, in which the generation of
\* scene 2 fails and that of scenes 1, 3 and 4 succeeds, get_status eventually
\* reports scene 2 failed, scenes 1, 3, 4 completed and overall_status partial,
\* and reports so from then on.
C20_Scene2FailsPartial ==
    (1 \in DOMAIN jobs) ~> []Scene2FailedReported

\* C20 witness: every coroutine has ended, the one of scene 2 with a failed
\* download, and the answer is the partial one
C20_Witness ==
    /\ 1 \in DOMAIN tasks
    /\ \A k \in 1..Len(tasks[1]) : tasks[1][k].pc = "done"
    /\ jobs[1].scenes[FailingScene].error = Some("Failed to download video")
    /\ Scene2FailedReported

\* every Scene Job of every registered job is completed or failed
AllScenesTerminal ==
    \A j \in DOMAIN jobs : \A i \in 1..Len(jobs[j].scenes) :
        jobs[j].scenes[i].status \in {"completed", "failed"}

\* get_status reports every scene of every registered job completed, with its
\* video, and the job completed
AllReportedCompleted ==
    \A j \in DOMAIN jobs :
        LET r == VideoStatusResponse(jobs, j)
        IN  /\ r.overall_status = "completed"
            /\ \A i \in 1..Len(r.scenes) :
                  r.scenes[i].status = "completed" /\ r.scenes[i].video_url # None

\* C21: under fair scheduling, once a job is registered every one of its Scene
\* Jobs ends completed or failed and stays so, the job does not stay
\* generating, and when no generation failed get_status reports every scene
\* and the job completed.
C21_EveryJobEnds ==
    (jobs # EmptyMap) ~>
        [](/\ AllScenesTerminal
           /\ \A j \in DOMAIN jobs : get_overall_status(jobs[j]) # "generating"
           /\ (\A j \in DOMAIN jobs : ~AnyStatus(jobs[j], "failed")) => AllReportedCompleted)

\* C21 witness: the four coroutines of a job have ended, all with a video, and
\* the job is reported completed
C21_Witness ==
    /\ 1 \in DOMAIN tasks
    /\ Len(tasks[1]) = Len(required_scenarios)
    /\ \A k \in 1..Len(tasks[1]) : tasks[1][k].pc = "done"
    /\ AllReportedCompleted

\* C22: a Frame Continuity Token given to a submission of scene i comes from
\* the clip of scene i - 1 and from no earlier scene, and every scene but the
\* last whose clip is saved, and whose last frame is extracted and uploaded,
\* leaves that frame as the token offered to the next scene.
C22_TokenFromPrecedingScene ==
    /\ [](\A k \in 1..Len(chain.subs) :
            IsToken(chain.subs[k]) => chain.subs[k][1].scene = chain.i - 1)
    /\ [][/\ chain.call = "running"
          /\ chain.pc = "poll"
          /\ chain.use_last_frame
          /\ chain.i < chain.n
          /\ chain' = EndScene(chain, "clip", TRUE)
          => chain'.previous_frame_uuid = Some(FrameOf(chain.i))]_vars

\* the seed the priority rule gives the first submission of the current scene
PrioritySeed(c) ==
    IF c.use_last_frame /\ c.previous_frame_uuid # None THEN c.previous_frame_uuid
    ELSE IF HasOwnImage(c) THEN c.images[c.i]
    ELSE None

\* C23: the first submission of a scene is seeded with the token when
\* continuity is enabled and a token is there, else with the scene's own static
\* image when it has one, else with nothing; no submission of scene i is seeded
\* with the static image of another scene.
C23_SeedPriority ==
    chain.subs # <<>> =>
        /\ chain.subs[1] = PrioritySeed(chain)
        /\ \A k \in 1..Len(chain.subs) :
              chain.subs[k] # None /\ chain.subs[k][1].kind = "image" =>
                  chain.subs[k][1].scene = chain.i

\* the smallest duration a 5-or-10-second model accepts that is not below d
RoundedUp(d) == IF d <= 5 THEN 5 ELSE 10

\* C24: for a model that takes 5 or 10 seconds only, the submitted duration is
\* 5 or 10, is the requested one when that is 5 or 10, is the requested one
\* rounded up otherwise, and is never below the requested one.
C24_DurationRoundedUp ==
    dur.state = "adjusted" /\ dur.klingai =>
        /\ dur.duration \in {5, 10}
        /\ dur.original_duration \in {5, 10} => dur.duration = dur.original_duration
        /\ dur.duration >= dur.original_duration
        /\ dur.duration = RoundedUp(dur.original_duration)

\* the k-th submission of the current scene was seeded with a static image
\* handle and failed with a seed-transfer error
StaticTransferFailure(c, k) ==
    /\ c.subs[k] # None
    /\ c.subs[k][1].kind = "image"
    /\ c.outcomes[k] = "transfer"

\* every submission of the current scene so far was seeded with a static image
\* handle and failed with a seed-transfer error
OnlyStaticTransferFailures(c) ==
    /\ c.subs # <<>>
    /\ \A k \in 1..Len(c.subs) : StaticTransferFailure(c, k)

\* the submissions of the current scene, among the first k, that were seeded
\* with a static image handle and failed with a seed-transfer error
StaticTransferFailures(c, k) == {h \in 1..k : StaticTransferFailure(c, h)}

\* the k-th submission was followed by another one with the same seed, or the
\* loop is about to make it
RetriedWithSameSeed(c, k) ==
    IF k < Len(c.subs) THEN c.subs[k + 1] = c.subs[k]
    ELSE c.call = "running" /\ c.pc = "submit" /\ c.image_uuid = c.subs[k]

\* the waits before the retries of the static-seeded transfer failures among
\* the submissions from k on, each twice the number of failed submissions
RECURSIVE WaitsFrom(_, _)
WaitsFrom(c, k) ==
    IF k > Len(c.subs) THEN <<>>
    ELSE IF StaticTransferFailure(c, k) /\ k <= max_retries
    THEN <<2 * k>> \o WaitsFrom(c, k + 1)
    ELSE WaitsFrom(c, k + 1)

\* C25 as stated: the first seed-transfer failure of a scene's static-seeded
\* submissions is retried with the same seed after 2 seconds, the second after
\* 4 seconds, and after the third no further submission is made.
C25_TwoRetriesTwoAndFourSeconds ==
    \A k \in 1..Len(chain.subs) :
        StaticTransferFailure(chain, k) =>
            LET nth == Cardinality(StaticTransferFailures(chain, k))
            IN  IF nth <= max_retries
                THEN /\ RetriedWithSameSeed(chain, k)
                     /\ Len(chain.sleeps) >= nth
                     /\ chain.sleeps[nth] = 2 * nth
                ELSE chain.call = "raised" /\ Len(chain.subs) = k

\* C25 amended: the failures of a scene are counted together, whatever their
\* kind. A static-seeded submission that fails with a seed-transfer error as
\* the k-th submission of its scene is retried with the same seed after 2 * k
\* seconds when k is 1 or 2, and ends the call when k is 3; the scene has no
\* other waits. So failures in a row from the scene's first submission wait 2 and 4
\* seconds and stop after the third, and a failure that follows the fallback
\* from the token or another error is retried once, after 4 seconds.
C25_SameSeedBackoff ==
    /\ \A k \in 1..Len(chain.subs) :
          StaticTransferFailure(chain, k) =>
              IF k <= max_retries
              THEN RetriedWithSameSeed(chain, k)
              ELSE chain.call = "raised" /\ Len(chain.subs) = k
    /\ (\E k \in 1..Len(chain.subs) : StaticTransferFailure(chain, k)) =>
          chain.sleeps = WaitsFrom(chain, 1)
    /\ Len(chain.subs) <= max_retries + 1
    /\ OnlyStaticTransferFailures(chain) =>
          /\ Len(chain.subs) = 1 =>
                chain.sleeps = <<2>> /\ chain.call = "running" /\ chain.pc = "submit"
          /\ Len(chain.subs) = 2 =>
                chain.sleeps = <<2, 4>> /\ chain.call = "running" /\ chain.pc = "submit"
          /\ Len(chain.subs) >= 3 =>
                chain.sleeps = <<2, 4>> /\ chain.call = "raised" /\ Len(chain.subs) = 3
          /\ chain.call = "running" => chain.image_uuid = chain.subs[1]

\* C25 witness: the token of the previous scene failed to transfer, the
\* scene's static image was submitted instead and failed to transfer too; it
\* was submitted once more, after 4 seconds, and the third failure ended the call
C25_Witness ==
    /\ chain.call = "raised"
    /\ Len(chain.subs) = 3
    /\ chain.subs[1] # None /\ chain.subs[1][1].kind = "frame"
    /\ StaticTransferFailure(chain, 2)
    /\ StaticTransferFailure(chain, 3)
    /\ chain.sleeps = <<4>>

\* C26: for clips of measured durations the offset of the k-th transition is
\* the duration of the clips 1..k, minus the k - 1 transitions before it, minus
\* one transition.
C26_TransitionOffsets ==
    /\ asm.call = "running"
    /\ \A i \in 1..Len(asm.clips) : asm.clips[i].probed
    => /\ Len(asm.offsets) = Len(asm.clips) - 1
       /\ \A k \in 1..Len(asm.offsets) :
             asm.offsets[k] =
                 TotalDuration(SubSeq(asm.clips, 1, k))
                     - (k - 1) * transition_duration - transition_duration

RECURSIVE ScenesWithVideo(_)
\* the numbers of the scenes that have a video clip
ScenesWithVideo(scenes) ==
    IF scenes = <<>> THEN <<>>
    ELSE IF Head(scenes).has_video
    THEN <<Head(scenes).scene_number>> \o ScenesWithVideo(Tail(scenes))
    ELSE ScenesWithVideo(Tail(scenes))

\* C27: unless the concatenation itself fails or a merged file is missing on
\* disk (the segments are then not the final videos in scene order), the final
\* video has one segment for every scene that has a video clip, in scene
\* order, whether or not the scene has audio.
C27_VideoOnlyScenesKept ==
    /\ pipe.state = "combined"
    /\ pipe.concat # "failed"
    /\ pipe.segments = SortedByNumber(FinalVideos(pipe.scenes))
    => pipe.segments = SortedByNumber(ScenesWithVideo(pipe.scenes))

\* C28: wait_for_completion ends, with the completed result, a task-failed
\* error or a timeout error; the timeout is raised at the first poll whose
\* elapsed time exceeds max_wait and whose answer does not end the call, so the
\* loop never goes to sleep past max_wait. A call ends in another way only
\* when a status request itself failed, which is no status response: the
\* exception of check_task_status then ends the call at that pass.
C28_PollingEnds ==
    /\ [](poll.state = "polling" => poll.elapsed <= max_wait)
    /\ [](poll.state = "timeout" =>
             poll.elapsed > max_wait /\ poll.last \notin {"completed", "failed", "raised"})
    /\ [](poll.state = "completed" => poll.last = "completed")
    /\ [](poll.state = "task_failed" => poll.last = "failed")
    /\ [](poll.state = "raised" <=> poll.last = "raised")
    /\ (poll.state = "polling") ~>
           (poll.state \in {"completed", "task_failed", "timeout", "raised"})

\* C28 witness: a task that never completed was polled past max_wait and ended
\* with the timeout error
C28_Witness ==
    /\ poll.state = "timeout"
    /\ poll.last = "processing"
    /\ poll.elapsed > max_wait


\* ------------------------------------------------------------ claim C29
\* the progress values generate_single_video writes with status generating,
\* and the 0 a scene is created with
GeneratingProgress == {0, 10, 30, 70, 80}

\* a reported scene shows the fields of whole update_scene calls: completed
\* comes with progress 100 and a result, failed with progress 0, generating
\* with one of the progress values written next to it
WholeUpdate(sc) ==
    /\ sc.status \in {"generating", "completed", "failed"}
    /\ sc.status = "completed" => sc.progress = 100 /\ sc.video_url # None
    /\ sc.status = "failed" => sc.progress = 0
    /\ sc.status = "generating" => sc.progress \in GeneratingProgress

\* the overall status that the statuses of one response give
StatusFromStatuses(S) ==
    IF S = {} THEN "unknown"
    ELSE IF S = {"completed"} THEN "completed"
    ELSE IF S = {"failed"} THEN "failed"
    ELSE IF "generating" \in S THEN "generating"
    ELSE "partial"

\* C29: every get_status response is a consistent snapshot under any
\* interleaving with the running generation tasks: no scene of a response
\* shows a partially applied update_scene (completed is never reported with
\* progress below 100 or without a result), and the reported overall_status is
\* the value derived from the scene statuses of that same response.
C29_ConsistentSnapshot ==
    \A job_id \in RequestJobIds :
        LET r == VideoStatusResponse(jobs, job_id)
        IN  r.kind = "ok" =>
               /\ \A i \in 1..Len(r.scenes) : WholeUpdate(r.scenes[i])
               /\ r.overall_status =
                     StatusFromStatuses({r.scenes[i].status : i \in 1..Len(r.scenes)})

\* C29 witness: a response taken while the tasks run, with one scene already
\* completed and another still downloading at progress 80
C29_Witness ==
    \E job_id \in RequestJobIds :
        LET r == VideoStatusResponse(jobs, job_id)
        IN  /\ r.kind = "ok"
            /\ r.overall_status = "generating"
            /\ \E i, k \in 1..Len(r.scenes) :
                  /\ r.scenes[i].status = "completed"
                  /\ r.scenes[i].progress = 100
                  /\ r.scenes[k].status = "generating"
                  /\ r.scenes[k].progress = 80


\* ------------------------------------------------------------ claim C30
\* a session video that a regenerate-scene wrote: its file was downloaded by
\* the temporary job of a regeneration, which is never registered
IsRegenerated(v) == v.video_url.uid[1] \notin DOMAIN jobs

\* C30: after regenerate_scene succeeded for scenario s of a session, the
\* session's scene video for s stays the regenerated video under any later
\* get_status poll of the session's original, already completed job: a poll
\* of a completed job never puts the job's older result in its place.
C30_PollKeepsRegeneratedVideo ==
    [][\A job_id \in DOMAIN jobs :
          LET sid == jobs[job_id].session_id
          IN  /\ get_video_status(job_id)
              /\ get_overall_status(jobs[job_id]) = "completed"
              /\ sid \in DOMAIN sessions
              /\ ~sessions[sid].expired
              => \A i \in 1..Len(sessions[sid].scene_videos) :
                    LET v == sessions[sid].scene_videos[i]
                    IN  IsRegenerated(v) =>
                           \E k \in 1..Len(sessions'[sid].scene_videos) :
                               /\ Lower(sessions'[sid].scene_videos[k].scenario) = Lower(v.scenario)
                               /\ sessions'[sid].scene_videos[k].video_url = v.video_url]_vars

====
